---- MODULE Spec2Model ----
(***************************************************************************)
(* Model of noodle-desktop-tauri/src/lib.rs: the five Tauri commands of    *)
(* the "secure_store" plugin.                                              *)
(*                                                                         *)
(*  - store_secure_value / get_secure_value work on the persisted store    *)
(*    "secure.store" (variable disk).  Each command builds its own store   *)
(*    handle, so the only state shared between two commands is the disk.   *)
(*  - execute_noodle / execute_noodle_file hand a script to the external   *)
(*    interpreter through ONE fixed file, temp_dir()/temp_noodle_script.nl *)
(*    (variable tempFile), shared by every call in flight.                 *)
(*  - execute_python_file runs the interpreter directly on the given path. *)
(*                                                                         *)
(* The interleaving unit of the execution commands is one file-system or   *)
(* process operation.  An open File follows POSIX rules: it keeps          *)
(* referring to its file after the path was removed, and two Files opened  *)
(* on the same path write into the same file.                              *)
(*                                                                         *)
(* Byte strings are sequences of byte tokens; "FF" is a byte that is not   *)
(* valid UTF-8.  Decoded strings are sequences of character tokens;        *)
(* "FFFD" is U+FFFD REPLACEMENT CHARACTER.  A string literal of the source *)
(* (an error prefix) is one token.                                         *)
(***************************************************************************)
EXTENDS Integers, Sequences, FiniteSets, TLC

\* ------------------------------------------------------------------ bounds
MaxCalls == 2      \* script-execution commands issued in one behaviour
NumKeys == 2       \* distinct keys used with the store
NumValues == 2     \* distinct values used with the store

Procs == 1..MaxCalls
Keys == 1..NumKeys
Values == 1..NumValues

\* Script texts handed to execute_noodle / found in user files.
Scripts == {<<"a", "a">>, <<"b">>}
\* Valid content a user file can have.
FileScripts == {<<"b">>}
\* Content of a user file that is not valid UTF-8.
BadUtf8 == <<"FF">>
\* Paths the file commands are called with.
Paths == {"/f.nl"}
\* What an interpreter run can end with: exit status, stdout and stderr.
Exits == {[success |-> TRUE, stdout |-> <<"o", "FF">>, stderr |-> <<"w">>],
          [success |-> FALSE, stdout |-> <<"o">>, stderr |-> <<"e", "FF">>]}

VARIABLES
    disk,        \* persisted content of "secure.store": Keys -> Option
    storeOp,     \* the store command that ran last, with its result
    prevOp,      \* the store command that ran before storeOp
    lastSet,     \* history: value of the last successful set of each key
    pc,          \* position of each execution command
    kind,        \* which command a slot runs
    arg,         \* its argument: script text, or file path
    script,      \* the code it writes to the temp file
    tempFile,    \* temp_dir()/temp_noodle_script.nl: [exists, data]
    linked,      \* the path still names the file the call's File has open
    files,       \* user files: Paths -> [exists, data]
    ran,         \* what the interpreter of a call read from tempFile
    exit,        \* collected process output of a call
    spawns,      \* Command::output() attempts made by a call
    created,     \* the call's File::create succeeded
    removed,     \* outcome of the call's fs::remove_file
    existed,     \* the file argument existed when the call checked
    result,      \* the Result<String, String> the command returned
    calls        \* execution commands started so far

storeVars == <<disk, storeOp, prevOp, lastSet>>
execVars == <<pc, kind, arg, script, tempFile, linked, files, ran, exit,
              spawns, created, removed, existed, result, calls>>
vars == <<disk, storeOp, prevOp, lastSet, pc, kind, arg, script, tempFile,
          linked, files, ran, exit, spawns, created, removed, existed,
          result, calls>>

\* ------------------------------------------------------------- secure store
None == [some |-> FALSE, val |-> 0]
Some(v) == [some |-> TRUE, val |-> v]

NoOp == [op |-> "none", key |-> 0, value |-> 0, ok |-> FALSE,
         got |-> None, err |-> ""]

\* StoreBuilder::new("secure.store").build(): a handle on the named store
\* holding what is persisted, or an error when the store cannot be opened.
StoreBuild(d, opens) ==
    IF opens THEN [ok |-> TRUE, cache |-> d] ELSE [ok |-> FALSE, cache |-> d]

\* Mutant: the insert is lost.
StoreInsert_Dropped(cache, k, v) == cache

\* Mutant: the insert starts from an empty map.
StoreInsert_Fresh(cache, k, v) ==
    [x \in DOMAIN cache |-> IF x = k THEN Some(v) ELSE None]

\* store.insert(key, value)
StoreInsert(cache, k, v) == [cache EXCEPT ![k] = Some(v)]

\* Mutant: a missing key is reported as an error.
StoreGet_ErrOnMissing(cache, k) == [ok |-> cache[k].some, got |-> cache[k]]

\* store.get(key).cloned(), wrapped in Ok
StoreGet(cache, k) == [ok |-> TRUE, got |-> cache[k]]

\* .save().await: the cache replaces the persisted content, or the persist
\* step fails and the persisted content stays.
StoreSave(d, cache, persists) == IF persists THEN cache ELSE d

store_secure_value(k, v) ==
    \E opens \in BOOLEAN, persists \in BOOLEAN :
        LET b == StoreBuild(disk, opens) IN
        /\ prevOp' = storeOp
        /\ IF ~b.ok
           THEN /\ storeOp' = [op |-> "set", key |-> k, value |-> v,
                               ok |-> FALSE, got |-> None, err |-> "open"]
                /\ UNCHANGED <<disk, lastSet>>
           ELSE /\ disk' = StoreSave(disk, StoreInsert(b.cache, k, v), persists)
                /\ storeOp' = [op |-> "set", key |-> k, value |-> v,
                               ok |-> persists, got |-> None,
                               err |-> IF persists THEN "" ELSE "persist"]
                /\ lastSet' = IF persists THEN [lastSet EXCEPT ![k] = Some(v)]
                              ELSE lastSet
        /\ UNCHANGED execVars

get_secure_value(k) ==
    \E opens \in BOOLEAN :
        LET b == StoreBuild(disk, opens) IN
        /\ prevOp' = storeOp
        /\ IF ~b.ok
           THEN storeOp' = [op |-> "get", key |-> k, value |-> 0,
                            ok |-> FALSE, got |-> None, err |-> "open"]
           ELSE storeOp' = [op |-> "get", key |-> k, value |-> 0,
                            ok |-> StoreGet(b.cache, k).ok,
                            got |-> StoreGet(b.cache, k).got, err |-> ""]
        /\ UNCHANGED <<disk, lastSet>>
        /\ UNCHANGED execVars

StoreInit ==
    /\ disk = [k \in Keys |-> None]
    /\ lastSet = [k \in Keys |-> None]
    /\ storeOp = NoOp
    /\ prevOp = NoOp

\* ------------------------------------------------------- script execution
Ok(m) == [ok |-> TRUE, msg |-> m]
Err(m) == [ok |-> FALSE, msg |-> m]
NoResult == Err(<<>>)
NoRun == [read |-> FALSE, exists |-> FALSE, data |-> <<>>]
NoExit == [collected |-> FALSE, success |-> FALSE,
           stdout |-> <<>>, stderr |-> <<>>]

\* String::from_utf8_lossy(..).to_string(): every byte that is not valid
\* UTF-8 becomes U+FFFD, the others are kept.
Lossy(bytes) ==
    [i \in 1..Len(bytes) |-> IF bytes[i] = "FF" THEN "FFFD" ELSE bytes[i]]

\* std::fs::read_to_string succeeds only on valid UTF-8.
ValidUtf8(bytes) == \A i \in 1..Len(bytes) : bytes[i] # "FF"

\* Mutant: the existence check is skipped.
PathExists_Unchecked(path) == TRUE

\* Path::new(&file_path).exists()
PathExists(path) == files[path].exists

\* format!("... failed: {}", stderr) of each command
FailPrefix(k) ==
    CASE k = "noodle" -> "Execution failed: "
      [] k = "python_file" -> "Python execution failed: "
      [] k = "noodle_file" -> "Noodle execution failed: "

\* format!("Failed to execute ...: {}", e) of each command
SpawnErrPrefix(k) ==
    CASE k = "noodle" -> "Failed to execute command: "
      [] k = "python_file" -> "Failed to execute Python file: "
      [] k = "noodle_file" -> "Failed to execute Noodle file: "

\* Mutant: the failure message is built from stdout.
ReturnResult_WrongStream(k, ex, rm) ==
    IF ex.success
    THEN Ok(Lossy(ex.stdout))
    ELSE Err(<<FailPrefix(k)>> \o Lossy(ex.stdout))

\* Mutant: a failed remove_file is propagated with `?`.
ReturnResult_CleanupEscalated(k, ex, rm) ==
    IF rm = "failed"
    THEN Err(<<"io error">>)
    ELSE IF ex.success
         THEN Ok(Lossy(ex.stdout))
         ELSE Err(<<FailPrefix(k)>> \o Lossy(ex.stderr))

\* The tail of each command: the Result of fs::remove_file is dropped by
\* `let _ =`, then the exit status alone selects the returned value.
ReturnResult(k, ex, rm) ==
    IF ex.success
    THEN Ok(Lossy(ex.stdout))
    ELSE Err(<<FailPrefix(k)>> \o Lossy(ex.stderr))

\* Mutant: a spawn error is retried.
AfterSpawnError_Retry == "spawn"

\* `.output().map_err(..)?`: a spawn error returns from the command.
AfterSpawnError == "done"

\* write(2) of `bytes` at offset 0 of a file holding `data`.
Overwrite(data, bytes) ==
    bytes \o SubSeq(data, Len(bytes) + 1, Len(data))

\* What is remembered of the calls that have returned is dropped: f with
\* the entry of every returned call set back to init.
Forget(f, init) ==
    [q \in Procs |-> IF pc[q] = "done" THEN init ELSE f[q]]

\* A command is entered: the next unused slot takes it with kind k and
\* argument a, and goes to `next` holding result r, script text sc and the
\* outcome ex of its existence check.  Calls that returned earlier are
\* forgotten.
Enter(p, k, a, next, r, sc, ex) ==
    /\ calls < MaxCalls
    /\ p = calls + 1
    /\ pc[p] = "idle"
    /\ calls' = calls + 1
    /\ pc' = [Forget(pc, "gone") EXCEPT ![p] = next]
    /\ kind' = [Forget(kind, "none") EXCEPT ![p] = k]
    /\ arg' = [Forget(arg, <<>>) EXCEPT ![p] = a]
    /\ result' = [Forget(result, NoResult) EXCEPT ![p] = r]
    /\ script' = [script EXCEPT ![p] = sc]
    /\ existed' = [Forget(existed, FALSE) EXCEPT ![p] = ex]
    /\ exit' = Forget(exit, NoExit)
    /\ spawns' = Forget(spawns, 0)
    /\ created' = Forget(created, FALSE)
    /\ removed' = Forget(removed, "none")
    /\ UNCHANGED <<tempFile, linked, files, ran>>
    /\ UNCHANGED storeVars

\* The command goes on to its next statement.
Goto(p, next) ==
    /\ pc' = [pc EXCEPT ![p] = next]
    /\ UNCHANGED result

\* The command returns r: its locals (the script text, the open File, the
\* process Output's link to what the interpreter read) are dropped.
ReturnAt(p, r, where) ==
    /\ pc' = [pc EXCEPT ![p] = where]
    /\ result' = [result EXCEPT ![p] = r]
    /\ script' = [script EXCEPT ![p] = <<>>]
    /\ linked' = [linked EXCEPT ![p] = FALSE]
    /\ ran' = [ran EXCEPT ![p] = NoRun]

Return(p, r) == ReturnAt(p, r, "done")

execute_noodle(p, code) ==
    \E utf8Path \in BOOLEAN :
        IF utf8Path
        THEN Enter(p, "noodle", code, "create", NoResult, code, FALSE)
        ELSE Enter(p, "noodle", code, "done", Err(<<"Invalid temp path">>),
                   <<>>, FALSE)

execute_python_file(p, path) ==
    IF ~PathExists(path)
    THEN Enter(p, "python_file", path, "done",
               Err(<<"File not found: ", path>>), <<>>, files[path].exists)
    ELSE Enter(p, "python_file", path, "spawn", NoResult, <<>>,
               files[path].exists)

execute_noodle_file(p, path) ==
    IF ~PathExists(path)
    THEN Enter(p, "noodle_file", path, "done",
               Err(<<"File not found: ", path>>), <<>>, files[path].exists)
    ELSE \E utf8Path \in BOOLEAN :
            IF utf8Path
            THEN Enter(p, "noodle_file", path, "read", NoResult, <<>>,
                       files[path].exists)
            ELSE Enter(p, "noodle_file", path, "done",
                       Err(<<"Invalid temp path">>), <<>>,
                       files[path].exists)

\* std::fs::read_to_string(&file_path)
ReadSource(p) ==
    /\ pc[p] = "read"
    /\ LET f == files[arg[p]] IN
       \E readable \in BOOLEAN :
          IF f.exists /\ readable /\ ValidUtf8(f.data)
          THEN /\ Goto(p, "create")
               /\ script' = [script EXCEPT ![p] = f.data]
               /\ UNCHANGED <<linked, ran>>
          ELSE Return(p, Err(<<"Failed to read Noodle file: ", "io error">>))
    /\ UNCHANGED <<kind, arg, tempFile, files, exit, spawns, created, removed,
                   existed, calls>>
    /\ UNCHANGED storeVars

\* File::create(&temp_file): opens the file the path names and truncates it,
\* or makes a new file when the path names none.
CreateTemp(p) ==
    /\ pc[p] = "create"
    /\ \E creatable \in BOOLEAN :
          IF creatable
          THEN /\ tempFile' = [exists |-> TRUE, data |-> <<>>]
               /\ linked' = [linked EXCEPT ![p] = TRUE]
               /\ created' = [created EXCEPT ![p] = TRUE]
               /\ Goto(p, "write")
               /\ UNCHANGED <<script, ran>>
          ELSE /\ Return(p, Err(<<"io error">>))
               /\ UNCHANGED <<tempFile, created>>
    /\ UNCHANGED <<kind, arg, files, exit, spawns, removed, existed, calls>>
    /\ UNCHANGED storeVars

\* Writing `bytes` through the call's open File: it reaches the path only
\* while the path still names the file that File has open.
WriteThrough(p, bytes) ==
    IF linked[p]
    THEN tempFile' = [tempFile EXCEPT !.data = Overwrite(@, bytes)]
    ELSE UNCHANGED tempFile

\* file.write_all(code.as_bytes()): all of it, or a failure after some of it.
WriteTemp(p) ==
    /\ pc[p] = "write"
    /\ \/ /\ WriteThrough(p, script[p])
          /\ Goto(p, "spawn")
          /\ UNCHANGED <<script, linked, ran>>
       \/ \E n \in 0..(Len(script[p]) - 1) :
             /\ WriteThrough(p, SubSeq(script[p], 1, n))
             /\ Return(p, Err(<<"io error">>))
    /\ UNCHANGED <<kind, arg, files, exit, spawns, created, removed, existed,
                   calls>>
    /\ UNCHANGED storeVars

\* Command::new("python")....output(): the process is spawned, or the spawn
\* fails and the command returns.  A spawned interpreter opens the path it
\* was given, runs what it finds there and exits; .output() collects status,
\* stdout and stderr.
Spawn(p) ==
    /\ pc[p] = "spawn"
    /\ spawns' = [spawns EXCEPT ![p] = @ + 1]
    /\ \/ /\ ran' = [ran EXCEPT ![p] =
                        IF kind[p] = "python_file" THEN NoRun
                        ELSE [read |-> TRUE, exists |-> tempFile.exists,
                              data |-> tempFile.data]]
          /\ \E e \in Exits :
                exit' = [exit EXCEPT ![p] =
                            [collected |-> TRUE, success |-> e.success,
                             stdout |-> e.stdout, stderr |-> e.stderr]]
          /\ Goto(p, "collect")
          /\ UNCHANGED <<script, linked>>
       \/ /\ ReturnAt(p, Err(<<SpawnErrPrefix(kind[p]), "io error">>),
                      AfterSpawnError)
          /\ UNCHANGED exit
    /\ UNCHANGED <<kind, arg, tempFile, files, created, removed, existed,
                   calls>>
    /\ UNCHANGED storeVars

\* let _ = fs::remove_file(&temp_file); then the result is returned.  A
\* removal unlinks the path from the file every open File still refers to.
Finish(p) ==
    /\ pc[p] = "collect"
    /\ pc' = [pc EXCEPT ![p] = "done"]
    /\ script' = [script EXCEPT ![p] = <<>>]
    /\ ran' = [ran EXCEPT ![p] = NoRun]
    /\ \/ /\ kind[p] = "python_file"
          /\ result' = [result EXCEPT ![p] =
                           ReturnResult(kind[p], exit[p], "none")]
          /\ linked' = [linked EXCEPT ![p] = FALSE]
          /\ UNCHANGED <<tempFile, removed>>
       \/ /\ kind[p] # "python_file"
          /\ tempFile.exists
          /\ tempFile' = [exists |-> FALSE, data |-> <<>>]
          /\ linked' = [q \in Procs |-> FALSE]
          /\ removed' = [removed EXCEPT ![p] = "ok"]
          /\ result' = [result EXCEPT ![p] =
                           ReturnResult(kind[p], exit[p], "ok")]
       \/ /\ kind[p] # "python_file"
          /\ removed' = [removed EXCEPT ![p] = "failed"]
          /\ result' = [result EXCEPT ![p] =
                           ReturnResult(kind[p], exit[p], "failed")]
          /\ linked' = [linked EXCEPT ![p] = FALSE]
          /\ UNCHANGED tempFile
    /\ UNCHANGED <<kind, arg, files, exit, spawns, created, existed, calls>>
    /\ UNCHANGED storeVars

\* Other programs create, rewrite and delete the user's files.
EnvWriteFile(path, data) ==
    /\ files' = [files EXCEPT ![path] = [exists |-> TRUE, data |-> data]]
    /\ UNCHANGED <<pc, kind, arg, script, tempFile, linked, ran,
                   exit, spawns, created, removed, existed, result, calls>>
    /\ UNCHANGED storeVars

EnvDeleteFile(path) ==
    /\ files[path].exists
    /\ files' = [files EXCEPT ![path] = [exists |-> FALSE, data |-> <<>>]]
    /\ UNCHANGED <<pc, kind, arg, script, tempFile, linked, ran,
                   exit, spawns, created, removed, existed, result, calls>>
    /\ UNCHANGED storeVars

ExecInit ==
    /\ pc = [p \in Procs |-> "idle"]
    /\ kind = [p \in Procs |-> "none"]
    /\ arg = [p \in Procs |-> <<>>]
    /\ script = [p \in Procs |-> <<>>]
    /\ tempFile = [exists |-> FALSE, data |-> <<>>]
    /\ linked = [p \in Procs |-> FALSE]
    /\ files = [f \in Paths |-> [exists |-> FALSE, data |-> <<>>]]
    /\ ran = [p \in Procs |-> NoRun]
    /\ exit = [p \in Procs |-> NoExit]
    /\ spawns = [p \in Procs |-> 0]
    /\ created = [p \in Procs |-> FALSE]
    /\ removed = [p \in Procs |-> "none"]
    /\ existed = [p \in Procs |-> FALSE]
    /\ result = [p \in Procs |-> NoResult]
    /\ calls = 0

Init == StoreInit /\ ExecInit

Step(p) ==
    \/ ReadSource(p)
    \/ CreateTemp(p)
    \/ WriteTemp(p)
    \/ Spawn(p)
    \/ Finish(p)

Command(p) ==
    \/ \E code \in Scripts : execute_noodle(p, code)
    \/ \E path \in Paths : execute_python_file(p, path)
    \/ \E path \in Paths : execute_noodle_file(p, path)

Env ==
    \/ \E path \in Paths, data \in FileScripts \cup {BadUtf8} :
          EnvWriteFile(path, data)
    \/ \E path \in Paths : EnvDeleteFile(path)

\* No call is between its entry and its return.
Quiet == \A q \in Procs : pc[q] \in {"idle", "done", "gone"}

\* The host runtime dispatches the commands as independent tasks.
Next == \E p \in Procs : Command(p) \/ Step(p) \/ Env

Spec == Init /\ [][Next]_vars

\* One command at a time: a command is entered only when none is in flight.
SoloNext == \E p \in Procs : (Quiet /\ Command(p)) \/ Step(p) \/ Env

SoloSpec == Init /\ [][SoloNext]_vars

StoreNext ==
    \/ \E k \in Keys, v \in Values : store_secure_value(k, v)
    \/ \E k \in Keys : get_secure_value(k)

StoreSpec == Init /\ [][StoreNext]_vars

\* ---------------------------------------------------------------- claims
NoodleKinds == {"noodle", "noodle_file"}
FileKinds == {"python_file", "noodle_file"}

\* The last two store commands were a successful set of a key and then a get
\* of the same key.
SetThenGet ==
    /\ prevOp.op = "set" /\ prevOp.ok
    /\ storeOp.op = "get" /\ storeOp.key = prevOp.key

\* C1 (as stated): after a successful store_secure_value(k, v), the next
\* store command get_secure_value(k) returns the present value v, never
\* absent and never an error.
C1_RoundTripAlways ==
    SetThenGet => storeOp.ok /\ storeOp.got = Some(prevOp.value)

\* C1 (amended): after a successful store_secure_value(k, v), the next store
\* command get_secure_value(k) returns the present value v whenever it can
\* open the store, and returns the open error otherwise.
C1_RoundTrip ==
    SetThenGet =>
        IF storeOp.err = "open"
        THEN ~storeOp.ok
        ELSE storeOp.ok /\ storeOp.got = Some(prevOp.value)

C1_Witness ==
    /\ SetThenGet
    /\ storeOp.ok
    /\ storeOp.got = Some(prevOp.value)
    /\ \E k \in Keys : k # storeOp.key /\ disk[k].some

\* C6: every key holds the value of the last successful set to it: a set
\* leaves every other key alone and no command makes a set key absent.
C6_LastWriteWins ==
    \A k \in Keys : disk[k] = lastSet[k]

C6_Witness ==
    /\ storeOp.op = "set" /\ storeOp.ok
    /\ prevOp.op = "set" /\ prevOp.ok
    /\ prevOp.key # storeOp.key
    /\ disk[prevOp.key] = Some(prevOp.value)
    /\ disk[storeOp.key] = Some(storeOp.value)

\* C7: a get_secure_value that opens the store and asks for a key that was
\* never set returns Ok(None), and no get changes the persisted store.
C7_GetMissing ==
    [][(storeOp'.op = "get" /\ prevOp' = storeOp) =>
          /\ disk' = disk
          /\ (storeOp'.err # "open" /\ ~lastSet[storeOp'.key].some) =>
                (storeOp'.ok /\ storeOp'.got = None)]_vars

C7_Witness ==
    /\ storeOp.op = "get" /\ storeOp.ok /\ storeOp.got = None
    /\ ~lastSet[storeOp.key].some
    /\ \E k \in Keys : disk[k].some

\* C2: with one command at a time, once an execute_noodle or
\* execute_noodle_file call that created the temp file has returned, the
\* temp file no longer exists.
C2_TempFileGone ==
    \A p \in Procs :
        (p = calls /\ pc[p] = "done" /\ kind[p] \in NoodleKinds /\ created[p])
            => ~tempFile.exists

\* C3: when the calls are execute_noodle calls with distinct script texts,
\* the interpreter of each call has read exactly the text its call wrote.
C3_ReadsOwnScript ==
    \A p \in Procs :
        (/\ pc[p] = "collect"
         /\ \A q \in Procs : kind[q] \in {"none", "noodle"}
         /\ \A q \in Procs \ {p} : kind[q] = "noodle" => arg[q] # arg[p])
            => ran[p].exists /\ ran[p].data = script[p]

\* The call has written the temp file, the path still names the file it
\* wrote, and its interpreter has not exited yet.
OwnsTemp(q) ==
    /\ pc[q] = "spawn"
    /\ kind[q] \in NoodleKinds
    /\ tempFile.exists
    /\ linked[q]

\* C8: no call's cleanup deletes the temp file written by a different call
\* whose interpreter has not exited yet.
C8_NoForeignDelete ==
    [][\A p \in Procs, q \in Procs :
          (p # q /\ pc[p] = "collect" /\ pc'[p] = "done" /\ OwnsTemp(q))
              => tempFile'.exists]_vars

\* C4: a file command called with a path that does not exist returns the
\* file-not-found error and spawns no process.
C4_NotFound ==
    \A p \in Procs :
        (pc[p] # "idle" /\ kind[p] \in FileKinds /\ ~existed[p]) =>
            /\ pc[p] = "done"
            /\ result[p] = Err(<<"File not found: ", arg[p]>>)
            /\ spawns[p] = 0
            /\ ~exit[p].collected

C4_Witness ==
    \E p \in Procs, q \in Procs :
        /\ pc[p] = "done" /\ kind[p] = "noodle_file" /\ ~existed[p]
        /\ kind[q] = "python_file" /\ existed[q] /\ spawns[q] = 1

\* The call returned after its process exited with a non-zero status.
NonZeroExit(p) ==
    pc[p] = "done" /\ exit[p].collected /\ ~exit[p].success

\* C5 (as stated): after a non-zero exit the call fails with a message equal
\* to the captured stderr, nothing added or removed.
C5_StderrVerbatim ==
    \A p \in Procs :
        NonZeroExit(p) => ~result[p].ok /\ result[p].msg = exit[p].stderr

\* C5 (amended): after a non-zero exit the call fails with the command's
\* prefix followed by the captured stderr decoded with U+FFFD in place of
\* every invalid byte.
C5_PrefixedStderr ==
    \A p \in Procs :
        NonZeroExit(p) =>
            /\ ~result[p].ok
            /\ Len(result[p].msg) = Len(exit[p].stderr) + 1
            /\ result[p].msg[1] =
                  (CASE kind[p] = "noodle" -> "Execution failed: "
                     [] kind[p] = "python_file" -> "Python execution failed: "
                     [] kind[p] = "noodle_file" -> "Noodle execution failed: ")
            /\ \A i \in 1..Len(exit[p].stderr) :
                  result[p].msg[i + 1] =
                     IF exit[p].stderr[i] = "FF" THEN "FFFD"
                     ELSE exit[p].stderr[i]

C5_Witness ==
    \E p \in Procs, q \in Procs :
        /\ NonZeroExit(p) /\ kind[p] = "noodle"
        /\ NonZeroExit(q) /\ kind[q] = "python_file"
        /\ \E i \in 1..Len(exit[p].stderr) : exit[p].stderr[i] = "FF"

\* C9: a call attempts the subprocess at most once, and after a spawn
\* failure or a non-zero exit it has returned a failure.
C9_SingleAttempt ==
    \A p \in Procs :
        /\ spawns[p] <= 1
        /\ (spawns[p] = 1 /\ pc[p] # "collect") =>
              /\ pc[p] = "done"
              /\ (~exit[p].collected \/ ~exit[p].success) => ~result[p].ok

C9_Witness ==
    \E p \in Procs, q \in Procs :
        /\ pc[p] = "done" /\ spawns[p] = 1 /\ ~exit[p].collected
        /\ NonZeroExit(q) /\ spawns[q] = 1

\* C10: once the process of an execute_noodle or execute_noodle_file call is
\* collected, the exit status alone decides the result: a successful exit
\* returns the decoded stdout as success whether or not the temp file could
\* be deleted.
C10_CleanupSwallowed ==
    \A p \in Procs :
        (pc[p] = "done" /\ kind[p] \in NoodleKinds /\ exit[p].collected) =>
            /\ result[p].ok = exit[p].success
            /\ exit[p].success => result[p].msg = Lossy(exit[p].stdout)

C10_Witness ==
    \E p \in Procs, q \in Procs :
        /\ pc[p] = "done" /\ kind[p] \in NoodleKinds
        /\ exit[p].collected /\ exit[p].success
        /\ removed[p] = "failed" /\ result[p].ok
        /\ pc[q] = "done" /\ kind[q] \in NoodleKinds
        /\ exit[q].collected /\ exit[q].success
        /\ removed[q] = "ok" /\ result[q].ok

====
